---- MODULE Spec2Model ----
(***************************************************************************)
(* State-machine model of sia-local-control-ui:                            *)
(*   src/src/sia_local_control_ui/application.py  (SiaLocalControlUi-      *)
(*       Application: setup, button callbacks, update_dashboard_data)      *)
(*   src/src/sia_local_control_ui/dashboard.py    (DashboardData,          *)
(*       SiaDashboard, DashboardInterface)                                 *)
(*                                                                         *)
(* Encoding of Python values.  A key of a dict always carries values of    *)
(* one kind, so that values can be compared:                               *)
(*   numbers  -> integers; None in a numeric position is NoneNum           *)
(*   strings  -> strings;  None in a string position is NoneStr, which is  *)
(*               not the text "None" that str(None) produces               *)
(*   selector analog readings are in tenths (4.9 -> 49, 5.0 -> 50)         *)
(*   dicts    -> functions whose DOMAIN is the set of keys                 *)
(***************************************************************************)
EXTENDS Integers, Sequences, FiniteSets, TLC

VARIABLES
    config,               \* deployment configuration (self.config), fixed
    setup_pc,             \* how far setup() has come
    running,              \* SiaDashboard._running
    selector_state,       \* self.selector_state
    valve_control_state,  \* self.valve_control_state
    valve_do,             \* the physical valve output (platform)
    data,                 \* SiaDashboard.data : DashboardData
    connected_clients,    \* SiaDashboard.connected_clients
    now,                  \* what datetime.now() returns
    th,                   \* threads executing update_data statement by statement
    op,                   \* the last operation and the values it read
    set_do_calls,         \* set_do values issued by the last operation
    emitted,              \* socket events emitted by the last operation
    err                   \* exception raised in the last operation ("none" if none)

vars == << config, setup_pc, running, selector_state, valve_control_state,
           valve_do, data, connected_clients, now, th, op, set_do_calls,
           emitted, err >>

appVars  == << selector_state, valve_control_state, valve_do >>
dashVars == << data, connected_clients >>

(***************************************************************************)
(* Python values                                                           *)
(***************************************************************************)
NoneNum == 0 - 1
NoneStr == "<None>"
Unset   == 0 - 2          \* the attribute has not been assigned yet

EmptyDict == [k \in {} |-> 0]
Put(d, k, v) == [y \in DOMAIN d \cup {k} |-> IF y = k THEN v ELSE d[y]]
Get(d, k, default) == IF k \in DOMAIN d THEN d[k] ELSE default

RECURSIVE SumSeq(_)
SumSeq(s) == IF s = << >> THEN 0 ELSE Head(s) + SumSeq(Tail(s))

\* float(x) of a number keeps its value; float(None) raises TypeError,
\* which FloatRaises reports.
FloatRaises(x) == x = NoneNum
PyFloat(x) == x

\* str(x): a string is unchanged, None becomes the text "None".
PyStr(x) == IF x = NoneStr THEN "None" ELSE x

\* DashboardData._to_bool for the bool values the callers pass.
to_bool(value, default) == IF value \in BOOLEAN THEN value ELSE default

(***************************************************************************)
(* DashboardData                                                           *)
(***************************************************************************)
DashboardData(t) ==
    [ target_rate |-> 0, flow_rate |-> 0, pump_state |-> "standby",
      pump2_target_rate |-> 0, pump2_flow_rate |-> 0,
      pump2_pump_state |-> "standby",
      battery_voltage |-> 0, battery_percentage |-> 0,
      panel_power |-> 0, battery_ah |-> 0,
      tank_level_mm |-> 0, tank_level_percent |-> 0,
      skid_flow |-> 0, skid_pressure |-> 0,
      timestamp |-> t, system_status |-> "running",
      faults |-> [hh_pressure |-> FALSE, ll_tank_level |-> FALSE] ]

\* Mutant: the pump2 section is filled from the attributes of pump 1.
ToDictPump2FromPump(d) ==
    [ pump   |-> [target_rate |-> d.target_rate, flow_rate |-> d.flow_rate,
                  pump_state |-> d.pump_state],
      pump2  |-> [target_rate |-> d.target_rate, flow_rate |-> d.flow_rate,
                  pump_state |-> d.pump_state],
      solar  |-> [battery_voltage |-> d.battery_voltage,
                  battery_percentage |-> d.battery_percentage,
                  panel_power |-> d.panel_power,
                  battery_ah |-> d.battery_ah],
      tank   |-> [tank_level_mm |-> d.tank_level_mm,
                  tank_level_percent |-> d.tank_level_percent],
      skid   |-> [skid_flow |-> d.skid_flow, skid_pressure |-> d.skid_pressure],
      system |-> [timestamp |-> d.timestamp, status |-> d.system_status],
      faults |-> [hh_pressure |-> d.faults.hh_pressure,
                  ll_tank_level |-> d.faults.ll_tank_level] ]

to_dict(d) ==
    [ pump   |-> [target_rate |-> d.target_rate, flow_rate |-> d.flow_rate,
                  pump_state |-> d.pump_state],
      pump2  |-> [target_rate |-> d.pump2_target_rate,
                  flow_rate |-> d.pump2_flow_rate,
                  pump_state |-> d.pump2_pump_state],
      solar  |-> [battery_voltage |-> d.battery_voltage,
                  battery_percentage |-> d.battery_percentage,
                  panel_power |-> d.panel_power,
                  battery_ah |-> d.battery_ah],
      tank   |-> [tank_level_mm |-> d.tank_level_mm,
                  tank_level_percent |-> d.tank_level_percent],
      skid   |-> [skid_flow |-> d.skid_flow, skid_pressure |-> d.skid_pressure],
      system |-> [timestamp |-> d.timestamp, status |-> d.system_status],
      faults |-> [hh_pressure |-> d.faults.hh_pressure,
                  ll_tank_level |-> d.faults.ll_tank_level] ]

\* The assignment statements of update_from_dict, in program order.
UpdateStmts ==
    << [sec |-> "pump",   key |-> "target_rate", attr |-> "target_rate", conv |-> "float"],
       [sec |-> "pump",   key |-> "flow_rate",   attr |-> "flow_rate",   conv |-> "float"],
       [sec |-> "pump",   key |-> "pump_state",  attr |-> "pump_state",  conv |-> "str"],
       [sec |-> "pump2",  key |-> "target_rate", attr |-> "pump2_target_rate", conv |-> "float"],
       [sec |-> "pump2",  key |-> "flow_rate",   attr |-> "pump2_flow_rate",   conv |-> "float"],
       [sec |-> "pump2",  key |-> "pump_state",  attr |-> "pump2_pump_state",  conv |-> "str"],
       [sec |-> "solar",  key |-> "battery_voltage",    attr |-> "battery_voltage",    conv |-> "float"],
       [sec |-> "solar",  key |-> "battery_percentage", attr |-> "battery_percentage", conv |-> "float"],
       [sec |-> "solar",  key |-> "panel_power",        attr |-> "panel_power",        conv |-> "float"],
       [sec |-> "solar",  key |-> "battery_ah",         attr |-> "battery_ah",         conv |-> "float"],
       [sec |-> "tank",   key |-> "tank_level_mm",      attr |-> "tank_level_mm",      conv |-> "float"],
       [sec |-> "tank",   key |-> "tank_level_percent", attr |-> "tank_level_percent", conv |-> "float"],
       [sec |-> "skid",   key |-> "skid_flow",     attr |-> "skid_flow",     conv |-> "float"],
       [sec |-> "skid",   key |-> "skid_pressure", attr |-> "skid_pressure", conv |-> "float"],
       [sec |-> "system", key |-> "status",        attr |-> "system_status", conv |-> "str"],
       [sec |-> "faults", key |-> "hh_pressure",   attr |-> "hh_pressure",   conv |-> "bool"],
       [sec |-> "faults", key |-> "ll_tank_level", attr |-> "ll_tank_level", conv |-> "bool"],
       [sec |-> "",       key |-> "",              attr |-> "timestamp",     conv |-> "now"] >>

FaultAttrs == {"hh_pressure", "ll_tank_level"}

GetAttr(d, attr) == IF attr \in FaultAttrs THEN d.faults[attr] ELSE d[attr]

SetAttr(d, attr, v) ==
    IF attr \in FaultAttrs THEN [d EXCEPT !.faults[attr] = v]
                           ELSE [d EXCEPT ![attr] = v]

\* Whether the statement is executed: the `if "<section>" in data` around it,
\* and for a fault flag the `if "<flag>" in faults` as well.
StmtRuns(st, kw) ==
    CASE st.conv = "now"  -> TRUE
      [] st.conv = "bool" -> st.sec \in DOMAIN kw /\ st.key \in DOMAIN kw[st.sec]
      [] OTHER            -> st.sec \in DOMAIN kw

\* Mutant: an absent sub-field falls back to the constructor's default.
StmtArgResetsAbsent(st, kw, d) ==
    IF st.conv = "bool" THEN kw[st.sec][st.key]
    ELSE Get(kw[st.sec], st.key, GetAttr(DashboardData(0), st.attr))

\* section.get(key, self.attr): the value the conversion is applied to.
StmtArg(st, kw, d) ==
    IF st.conv = "bool" THEN kw[st.sec][st.key]
    ELSE Get(kw[st.sec], st.key, GetAttr(d, st.attr))

StmtRaises(st, kw, d) ==
    /\ st.conv = "float"
    /\ FloatRaises(StmtArg(st, kw, d))

StmtValue(st, kw, d, t) ==
    CASE st.conv = "now"   -> t
      [] st.conv = "float" -> PyFloat(StmtArg(st, kw, d))
      [] st.conv = "str"   -> PyStr(StmtArg(st, kw, d))
      [] st.conv = "bool"  -> to_bool(StmtArg(st, kw, d), GetAttr(d, st.attr))

RECURSIVE RunStmts(_, _, _, _)
RunStmts(i, d, kw, t) ==
    IF i > Len(UpdateStmts) THEN [data |-> d, raised |-> "none"]
    ELSE LET st == UpdateStmts[i] IN
         IF ~StmtRuns(st, kw) THEN RunStmts(i + 1, d, kw, t)
         ELSE IF StmtRaises(st, kw, d) THEN [data |-> d, raised |-> "TypeError"]
         ELSE RunStmts(i + 1, SetAttr(d, st.attr, StmtValue(st, kw, d, t)), kw, t)

\* DashboardData.update_from_dict run to its end or to the statement that raises.
update_from_dict(d, kw, t) == RunStmts(1, d, kw, t)

(***************************************************************************)
(* SiaDashboard                                                            *)
(***************************************************************************)
DataUpdate(to, d) == [event |-> "data_update", to |-> to, payload |-> to_dict(d)]

\* broadcast_update(): one data_update to all clients, if there are any.
broadcast_update(clients, d) ==
    IF clients # {} THEN << DataUpdate(clients, d) >> ELSE << >>

\* update_data(**kwargs): result data, the events emitted and the exception
\* caught and logged by its try/except.
update_data(d, clients, kw, t) ==
    IF DOMAIN kw = {} THEN [data |-> d, emitted |-> << >>, raised |-> "none"]
    ELSE CHOOSE res \in
           { IF r.raised # "none"
             THEN [data |-> r.data, emitted |-> << >>, raised |-> r.raised]
             ELSE [data |-> r.data, emitted |-> broadcast_update(clients, r.data),
                   raised |-> "none"] : r \in {update_from_dict(d, kw, t)} } : TRUE

(***************************************************************************)
(* SiaLocalControlUiApplication: selector derivation                       *)
(***************************************************************************)
SelectorThreshold == 50          \* the literal 5, in tenths

\* Mutant: the results of the two one-sided branches are exchanged.
SetupSelectorSwapped(p1_sel, p2_sel) ==
    IF p1_sel < SelectorThreshold /\ p2_sel < SelectorThreshold THEN 3
    ELSE IF p1_sel < SelectorThreshold /\ p2_sel >= SelectorThreshold THEN 1
    ELSE IF p1_sel >= SelectorThreshold /\ p2_sel < SelectorThreshold THEN 2
    ELSE 0

\* setup_selector, lines 96-103.
setup_selector_state(p1_sel, p2_sel) ==
    IF p1_sel < SelectorThreshold /\ p2_sel < SelectorThreshold THEN 3
    ELSE IF p1_sel < SelectorThreshold /\ p2_sel >= SelectorThreshold THEN 2
    ELSE IF p1_sel >= SelectorThreshold /\ p2_sel < SelectorThreshold THEN 1
    ELSE 0

\* update_dashboard_data, lines 162-169.
tick_selector_state(p1_slt_state, p2_slt_state) ==
    IF p1_slt_state <= SelectorThreshold /\ p2_slt_state <= SelectorThreshold THEN 3
    ELSE IF p1_slt_state < SelectorThreshold /\ p2_slt_state >= SelectorThreshold THEN 2
    ELSE IF p1_slt_state >= SelectorThreshold /\ p2_slt_state < SelectorThreshold THEN 1
    ELSE 0

(***************************************************************************)
(* SiaLocalControlUiApplication: button callbacks                          *)
(***************************************************************************)
\* DashboardInterface (dashboard.py:288-321) defines these methods only; a
\* call of any other attribute of it raises AttributeError.
DashboardInterfaceMethods ==
    {"start_dashboard", "_dashboard_thread_start", "stop_dashboard",
     "update_system_status"}

InterfaceCallRaises(method) == method \notin DashboardInterfaceMethods

\* The interlock test of both callbacks: `"calibration" not in [p1, p2]`.
NoCalibration(p1_state, p2_state) ==
    "calibration" \notin {p1_state, p2_state}

\* Mutant: the callback acts whenever some selector is in local mode.
BtnCallbackAnyLocal(value, sel, pumps, p1_state, p2_state) ==
    IF sel \in {1, 2, 3} /\ NoCalibration(p1_state, p2_state)
    THEN [writes |-> << value >>, raised |-> "none"]
    ELSE [writes |-> << >>, raised |-> "none"]

\* Body of start_btn_callback (value 0) and stop_btn_callback (value 1):
\* the set_do calls it issues and the exception it ends with.
btn_callback(value, sel, pumps, p1_state, p2_state) ==
    IF sel = Unset THEN [writes |-> << >>, raised |-> "AttributeError"]
    ELSE IF sel # 3 THEN [writes |-> << >>, raised |-> "none"]
    ELSE IF pumps < 2 THEN [writes |-> << >>, raised |-> "IndexError"]
    ELSE IF NoCalibration(p1_state, p2_state)
         THEN [writes |-> << value >>, raised |-> "none"]
    ELSE IF InterfaceCallRaises("valve_control_popup")
         THEN [writes |-> << >>, raised |-> "AttributeError"]
    ELSE [writes |-> << >>, raised |-> "none"]

start_btn_value == 0

\* Mutant: the stop button writes the value of the start button.
StopValueSwapped == start_btn_value

stop_btn_value == 1

(***************************************************************************)
(* SiaLocalControlUiApplication.update_dashboard_data                      *)
(***************************************************************************)
NonMissing(s) == SelectSeq(s, LAMBDA x : x # NoneNum)

\* sum(values) / len(values).  The solar readings used are multiples of 6,
\* so the quotient is a whole number for every pool of up to 3 controllers.
Mean(values) == SumSeq(values) \div Len(values)

Column(solar, tag) == [i \in 1..Len(solar) |-> solar[i][tag]]

\* Mutant: a metric with no reading collected is reported as zero.
AggregateZeroWhenEmpty(solar, tag) ==
    LET vals == NonMissing(Column(solar, tag)) IN
    IF Len(vals) > 0 THEN Mean(vals) ELSE 0

\* Lines 220-256: the value of the local variable after the aggregation.
\* panel_power and battery_ah are also the loop's own variables, so with no
\* reading collected they hold the last controller's (missing) reading.
Aggregate(solar, tag) ==
    LET vals == NonMissing(Column(solar, tag)) IN
    IF Len(vals) > 0 THEN Mean(vals)
    ELSE IF tag \in {"panel_power", "remaining_ah"} /\ Len(solar) > 0
         THEN solar[Len(solar)][tag]
    ELSE NoneNum

PutIfPresent(d, k, v) == IF v # NoneNum THEN Put(d, k, v) ELSE d

PutIfNonEmpty(d, k, section) == IF DOMAIN section # {} THEN Put(d, k, section) ELSE d

solar_data(cfg, r) ==
    LET pool == IF cfg.solar > 0 THEN r.solar ELSE << >> IN
    PutIfPresent(PutIfPresent(PutIfPresent(PutIfPresent(EmptyDict,
        "battery_voltage", Aggregate(pool, "b_voltage")),
        "battery_percentage", Aggregate(pool, "b_percent")),
        "panel_power", Aggregate(pool, "panel_power")),
        "battery_ah", Aggregate(pool, "remaining_ah"))

TankScale == 1000

tank_data(cfg, r) ==
    LET mm  == IF cfg.tank THEN r.level_reading ELSE NoneNum
        pct == IF cfg.tank THEN r.level_filled_percentage ELSE NoneNum
    IN PutIfPresent(
         IF mm # NoneNum THEN Put(EmptyDict, "tank_level_mm", mm * TankScale)
                         ELSE EmptyDict,
         "tank_level_percent", pct)

skid_data(cfg, r) ==
    PutIfPresent(PutIfPresent(EmptyDict,
        "skid_flow", IF cfg.flow THEN r.flow_value ELSE NoneNum),
        "skid_pressure", IF cfg.pressure THEN r.pressure_value ELSE NoneNum)

\* Lines 207-216.
faults_data(pump_1_state, pump_2_state) ==
    [ ll_tank_level |-> "tank_level_low_low_level" \in {pump_1_state, pump_2_state},
      hh_pressure   |-> "pressure_high_high_level" \in {pump_1_state, pump_2_state} ]

pump_data(p) ==
    [ target_rate |-> p.TargetRate, flow_rate |-> p.FlowRate,
      pump_state |-> p.StateString ]

\* The kwargs of the update_data call at line 309.
update_kwargs(cfg, sel, valve, r) ==
    LET k1 == Put(Put(EmptyDict, "selector", [state |-> sel]), "pump", pump_data(r.p1))
        k2 == IF cfg.pumps > 1 THEN Put(k1, "pump2", pump_data(r.p2)) ELSE k1
        k3 == Put(Put(k2, "valve", [state |-> valve]),
                  "faults", faults_data(r.app1, r.app2))
        k4 == PutIfNonEmpty(k3, "solar", solar_data(cfg, r))
        k5 == PutIfNonEmpty(k4, "tank", tank_data(cfg, r))
    IN PutIfNonEmpty(k5, "skid", skid_data(cfg, r))

\* Lines 193-195.
tick_valve_state(old, do_read) == IF do_read # NoneNum THEN do_read ELSE old

\* update_dashboard_data as a whole: the attributes it leaves, the kwargs it
\* passes to update_data (reached = it got that far) and the exception that
\* ended it before.
update_dashboard_data(cfg, sel, valve, r) ==
    IF cfg.pumps < 2      \* self.pump_2_selector was never assigned (line 90)
    THEN [selector |-> sel, valve |-> valve, reached |-> FALSE,
          kw |-> EmptyDict, raised |-> "AttributeError"]
    ELSE IF r.ai1 = NoneNum \/ r.ai2 = NoneNum   \* None <= 5
    THEN [selector |-> sel, valve |-> valve, reached |-> FALSE,
          kw |-> EmptyDict, raised |-> "TypeError"]
    ELSE LET s == tick_selector_state(r.ai1, r.ai2)
             v == tick_valve_state(valve, r.do)
         IN [selector |-> s, valve |-> v, reached |-> TRUE,
             kw |-> update_kwargs(cfg, s, v, r), raised |-> "none"]

(***************************************************************************)
(* Bounds and input sets                                                   *)
(***************************************************************************)
MaxClock == 1                     \* datetime.now() takes the values 0..MaxClock

Clients == {"c1", "c2"}           \* socket session ids (request.sid)
Threads == {"t1", "t2"}           \* threads that may call update_data

AIValues   == {49, 50, 51}        \* 4.9, 5.0, 5.1
AIReadings == AIValues \cup {NoneNum}

PeerStates == {"auto", "calibration", NoneStr}      \* AppState read on an edge

TwoPumps == [pumps |-> 2, solar |-> 0, tank |-> FALSE, flow |-> FALSE,
             pressure |-> FALSE]

PumpPresent == [TargetRate |-> 1, FlowRate |-> 1, StateString |-> "auto"]

\* Readings of a tick with everything but the selector inputs and the valve
\* read-back at one present value.
BaseReads ==
    [ ai1 |-> 49, ai2 |-> 49, p1 |-> PumpPresent, p2 |-> PumpPresent,
      do |-> 0, app1 |-> "auto", app2 |-> "auto", solar |-> << >>,
      level_reading |-> NoneNum, level_filled_percentage |-> NoneNum,
      flow_value |-> NoneNum, pressure_value |-> NoneNum ]

\* get_do returns the output's value, or nothing.
DoReads(physical) == {physical, NoneNum}

InterlockReads(physical) ==
    { [BaseReads EXCEPT !.ai1 = a1, !.ai2 = a2, !.do = d] :
        a1 \in AIReadings, a2 \in AIReadings, d \in DoReads(physical) }

Idle == [pc |-> 0, ph |-> "eval", kw |-> EmptyDict, tmp |-> 0, n |-> 0]

(***************************************************************************)
(* Initial state: the objects as __init__ leaves them                      *)
(***************************************************************************)
InitWith(cfg) ==
    /\ config = cfg
    /\ setup_pc = "new"
    /\ running = FALSE
    /\ selector_state = Unset
    /\ valve_control_state = Unset
    /\ valve_do \in {0, 1}
    /\ data = DashboardData(0)
    /\ connected_clients = {}
    /\ now = 0
    /\ th = [t \in Threads |-> Idle]
    /\ op = [name |-> "__init__"]
    /\ set_do_calls = << >>
    /\ emitted = << >>
    /\ err = "none"

Init == InitWith(TwoPumps)

(***************************************************************************)
(* Operations of the application                                           *)
(***************************************************************************)
\* Time passes.
ClockAdvance ==
    /\ now < MaxClock
    /\ now' = now + 1
    /\ op' = [name |-> "clock"]
    /\ set_do_calls' = << >> /\ emitted' = << >> /\ err' = "none"
    /\ UNCHANGED << config, setup_pc, running, appVars, dashVars, th >>

\* setup(), line 32: DashboardInterface.start_dashboard -> SiaDashboard.start.
start_dashboard ==
    /\ setup_pc = "new"
    /\ setup_pc' = "started"
    /\ running' = TRUE
    /\ op' = [name |-> "start_dashboard"]
    /\ set_do_calls' = << >> /\ emitted' = << >> /\ err' = "none"
    /\ UNCHANGED << config, appVars, dashVars, now, th >>

\* setup_selector with the two get_ai readings.  Its last statement calls
\* DashboardInterface.update_selector_state.
setup_selector(p1_sel, p2_sel) ==
    /\ setup_pc = "started"
    /\ setup_pc' = "selector"
    /\ IF config.pumps < 2
       THEN selector_state' = selector_state /\ err' = "IndexError"
       ELSE IF p1_sel = NoneNum \/ p2_sel = NoneNum
       THEN selector_state' = NoneNum /\ err' = "TypeError"
       ELSE /\ selector_state' = setup_selector_state(p1_sel, p2_sel)
            /\ err' = IF InterfaceCallRaises("update_selector_state")
                      THEN "AttributeError" ELSE "none"
    /\ op' = [name |-> "setup_selector", p1 |-> p1_sel, p2 |-> p2_sel]
    /\ set_do_calls' = << >> /\ emitted' = << >>
    /\ UNCHANGED << config, running, valve_control_state, valve_do, dashVars,
                    now, th >>

\* setup_valve_control: registers the two pulse listeners and reads the
\* valve output.  setup() awaits it after setup_selector; the exception that
\* ends setup_selector is kept in err, and the listeners are taken as
\* installed, so that the callbacks are analysed in every state
\* setup_selector can leave.
setup_valve_control(do_read) ==
    /\ setup_pc = "selector"
    /\ setup_pc' = "ready"
    /\ valve_control_state' = do_read
    /\ op' = [name |-> "setup_valve_control", do |-> do_read]
    /\ set_do_calls' = << >> /\ emitted' = << >> /\ err' = "none"
    /\ UNCHANGED << config, running, selector_state, valve_do, dashVars, now, th >>

\* main_loop -> update_dashboard_data -> SiaDashboard.update_data, with the
\* tag readings r.
main_loop(r) ==
    /\ setup_pc = "ready"
    /\ \A t \in Threads : th[t].pc = 0
    /\ \E tk \in {update_dashboard_data(config, selector_state,
                                         valve_control_state, r)} :
       \E u \in {IF tk.reached
                 THEN update_data(data, connected_clients, tk.kw, now)
                 ELSE [data |-> data, emitted |-> << >>, raised |-> tk.raised]} :
          /\ selector_state' = tk.selector
          /\ valve_control_state' = tk.valve
          /\ data' = u.data
          /\ emitted' = u.emitted
          /\ err' = u.raised
    /\ op' = [name |-> "update_dashboard_data", r |-> r]
    /\ set_do_calls' = << >>
    /\ UNCHANGED << config, setup_pc, running, valve_do, connected_clients,
                    now, th >>

\* A rising edge of a button: the callback with the two AppState tags it
\* reads.  A set_do may fail to take effect on the output.
btn_edge(name, value, p1_state, p2_state) ==
    /\ setup_pc = "ready"
    /\ \E b \in {btn_callback(value, selector_state, config.pumps,
                               p1_state, p2_state)} :
          /\ set_do_calls' = b.writes
          /\ err' = b.raised
          /\ IF b.writes = << >> THEN valve_do' = valve_do
             ELSE valve_do' \in {b.writes[1], valve_do}
    /\ op' = [name |-> name, p1_state |-> p1_state, p2_state |-> p2_state]
    /\ emitted' = << >>
    /\ UNCHANGED << config, setup_pc, running, selector_state,
                    valve_control_state, dashVars, now, th >>

start_btn_callback(p1_state, p2_state) ==
    btn_edge("start_btn_callback", start_btn_value, p1_state, p2_state)

stop_btn_callback(p1_state, p2_state) ==
    btn_edge("stop_btn_callback", stop_btn_value, p1_state, p2_state)

(***************************************************************************)
(* Spec: setup, ticks and button edges                                     *)
(***************************************************************************)
Next ==
    \/ ClockAdvance
    \/ start_dashboard
    \/ \E p1 \in AIReadings, p2 \in AIReadings : setup_selector(p1, p2)
    \/ \E d \in DoReads(valve_do) : setup_valve_control(d)
    \/ \E r \in InterlockReads(valve_do) : main_loop(r)
    \/ \E a \in PeerStates, b \in PeerStates : start_btn_callback(a, b)
    \/ \E a \in PeerStates, b \in PeerStates : stop_btn_callback(a, b)

Spec == Init /\ [][Next]_vars

(***************************************************************************)
(* Operations of the dashboard (socket handlers, heartbeat thread)         *)
(***************************************************************************)
Observe(o, em, e) ==
    /\ op' = o
    /\ emitted' = em
    /\ err' = e
    /\ set_do_calls' = << >>

NoMerging == \A t \in Threads : th[t].pc = 0

\* handle_connect for a new session c.  The handler runs on the server's own
\* thread and waits for no merge.
handle_connect(c) ==
    /\ running
    /\ c \notin connected_clients
    /\ connected_clients' = connected_clients \cup {c}
    /\ Observe([name |-> "handle_connect", sid |-> c],
               << DataUpdate({c}, data) >>, "none")
    /\ UNCHANGED << config, setup_pc, running, appVars, data, now, th >>

\* handle_disconnect of session c.
handle_disconnect(c) ==
    /\ running /\ NoMerging
    /\ c \in connected_clients
    /\ connected_clients' = connected_clients \ {c}
    /\ Observe([name |-> "handle_disconnect", sid |-> c], << >>, "none")
    /\ UNCHANGED << config, setup_pc, running, appVars, data, now, th >>

\* handle_data_request ('request_data') from session c.  Like handle_connect
\* it waits for no merge.
handle_data_request(c) ==
    /\ running
    /\ c \in connected_clients
    /\ Observe([name |-> "handle_data_request", sid |-> c],
               << DataUpdate({c}, data) >>, "none")
    /\ UNCHANGED << config, setup_pc, running, appVars, dashVars, now, th >>

\* handle_pump_state_change ('set_pump_state') from session c with message msg.
handle_pump_state_change(c, msg) ==
    /\ running /\ NoMerging
    /\ c \in connected_clients
    /\ IF "state" \in DOMAIN msg
       THEN \E d \in {[data EXCEPT !.pump_state = PyStr(msg["state"]),
                                   !.timestamp = now]} :
                /\ data' = d
                /\ Observe([name |-> "handle_pump_state_change", sid |-> c,
                            msg |-> msg],
                           broadcast_update(connected_clients, d), "none")
       ELSE /\ data' = data
            /\ Observe([name |-> "handle_pump_state_change", sid |-> c,
                        msg |-> msg], << >>, "none")
    /\ UNCHANGED << config, setup_pc, running, appVars, connected_clients,
                    now, th >>

Heartbeat(to, t) == [event |-> "heartbeat", to |-> to, payload |-> [timestamp |-> t]]

\* Mutant: the heartbeat is sent from the tick's side, so it waits for a
\* merge in progress and for a tick that does not return.
BackgroundUpdateAfterTick ==
    /\ running /\ NoMerging /\ setup_pc # "blocked"
    /\ data' = [data EXCEPT !.timestamp = now]
    /\ Observe([name |-> "_background_updates"],
               IF connected_clients # {}
               THEN << Heartbeat(connected_clients, now) >> ELSE << >>,
               "none")
    /\ UNCHANGED << config, setup_pc, running, appVars, connected_clients,
                    now, th >>

\* One iteration of the loop of _background_updates, which runs on its own
\* thread (started at line 258) and waits for no tick and no merge.
background_update ==
    /\ running
    /\ data' = [data EXCEPT !.timestamp = now]
    /\ Observe([name |-> "_background_updates"],
               IF connected_clients # {}
               THEN << Heartbeat(connected_clients, now) >> ELSE << >>,
               "none")
    /\ UNCHANGED << config, setup_pc, running, appVars, connected_clients,
                    now, th >>

\* SiaDashboard.update_data(**kw) called as a whole by one producer.
merge(name, kw) ==
    /\ NoMerging
    /\ \E u \in {update_data(data, connected_clients, kw, now)} :
          /\ data' = u.data
          /\ Observe([name |-> name, kw |-> kw], u.emitted, u.raised)
    /\ UNCHANGED << config, setup_pc, running, appVars, connected_clients,
                    now, th >>

\* DashboardInterface.update_system_status(status).
update_system_status(status) ==
    merge("update_system_status", [system |-> [status |-> status]])

(***************************************************************************)
(* SpecDash: ticks with varying telemetry, merge and broadcast, clients    *)
(***************************************************************************)
PumpReads ==
    { PumpPresent,
      [PumpPresent EXCEPT !.TargetRate = NoneNum],
      [PumpPresent EXCEPT !.FlowRate = NoneNum],
      [PumpPresent EXCEPT !.StateString = NoneStr] }

FaultStates == {"auto", "tank_level_low_low_level", "pressure_high_high_level"}

TelemetryReads ==
    { [BaseReads EXCEPT !.p1 = a, !.app1 = s1, !.app2 = s2] :
        a \in PumpReads, s1 \in FaultStates, s2 \in FaultStates }

StatusValues == {"standby"}
PumpStateMessages == { [state |-> "running"], EmptyDict }

NextDash ==
    \/ ClockAdvance
    \/ start_dashboard
    \/ setup_selector(49, 49)
    \/ setup_valve_control(valve_do)
    \/ \E r \in TelemetryReads : main_loop(r)
    \/ \E c \in Clients : handle_connect(c)
    \/ \E c \in Clients : handle_disconnect(c)
    \/ \E c \in Clients : handle_data_request(c)
    \/ \E c \in Clients, m \in PumpStateMessages : handle_pump_state_change(c, m)
    \/ background_update
    \/ \E st \in StatusValues : update_system_status(st)

InitDash == InitWith(TwoPumps) /\ valve_do = 0

SpecDash == InitDash /\ [][NextDash]_vars

(***************************************************************************)
(* SpecMerge: update_data applied once to a snapshot, for every partial    *)
(* update of at most MaxSections sections                                  *)
(***************************************************************************)
MaxSections == 2

\* All dicts over a subset of `keys`, key k taking a value of vals[k].
RECURSIVE DictsOver(_, _)
DictsOver(keys, vals) ==
    IF keys = {} THEN {EmptyDict}
    ELSE LET k    == CHOOSE x \in keys : TRUE
             rest == DictsOver(keys \ {k}, vals)
         IN rest \cup { Put(dct, k, v) : dct \in rest, v \in vals[k] }

SectionDicts(vals) == DictsOver(DOMAIN vals, vals)

PumpSectionDicts ==
    SectionDicts([target_rate |-> {7, NoneNum}, flow_rate |-> {7, NoneNum},
                  pump_state |-> {"fault"}])

SectionValues ==
    [ pump   |-> PumpSectionDicts,
      pump2  |-> SectionDicts([target_rate |-> {7}, flow_rate |-> {7},
                               pump_state |-> {NoneStr}]),
      solar  |-> SectionDicts([battery_voltage |-> {7}, battery_percentage |-> {7},
                               panel_power |-> {7}, battery_ah |-> {7}]),
      tank   |-> SectionDicts([tank_level_mm |-> {7}, tank_level_percent |-> {7}]),
      skid   |-> SectionDicts([skid_flow |-> {7}, skid_pressure |-> {7}]),
      system |-> SectionDicts([status |-> {"standby"}]),
      faults |-> SectionDicts([hh_pressure |-> BOOLEAN, ll_tank_level |-> BOOLEAN]),
      valve  |-> {[state |-> 1]} ]

\* All partial updates over a subset of at most n of the sections secs.
RECURSIVE UpdatesOver(_, _)
UpdatesOver(secs, n) ==
    IF secs = {} THEN {EmptyDict}
    ELSE LET x    == CHOOSE y \in secs : TRUE
             rest == UpdatesOver(secs \ {x}, n)
         IN rest \cup { Put(kw, x, sd) :
                          kw \in {k \in rest : Cardinality(DOMAIN k) < n},
                          sd \in SectionValues[x] }

PartialUpdates == UpdatesOver(DOMAIN SectionValues, MaxSections)

\* A partial update that sets every field.
FullUpdate ==
    [ pump   |-> [target_rate |-> 1, flow_rate |-> 1, pump_state |-> "auto"],
      pump2  |-> [target_rate |-> 1, flow_rate |-> 1, pump_state |-> "auto"],
      solar  |-> [battery_voltage |-> 1, battery_percentage |-> 1,
                  panel_power |-> 1, battery_ah |-> 1],
      tank   |-> [tank_level_mm |-> 1, tank_level_percent |-> 1],
      skid   |-> [skid_flow |-> 1, skid_pressure |-> 1],
      system |-> [status |-> "maintenance"],
      faults |-> [hh_pressure |-> TRUE, ll_tank_level |-> TRUE] ]

InitMergeAt(t0) ==
    /\ config = TwoPumps
    /\ setup_pc = "new"
    /\ running = FALSE
    /\ selector_state = Unset
    /\ valve_control_state = Unset
    /\ valve_do = 0
    /\ data \in { DashboardData(0),
                  update_from_dict(DashboardData(0), FullUpdate, 0).data }
    /\ connected_clients = {}
    /\ now = t0
    /\ th = [t \in Threads |-> Idle]
    /\ op = [name |-> "__init__"]
    /\ set_do_calls = << >>
    /\ emitted = << >>
    /\ err = "none"

InitMerge == InitMergeAt(1)

NextMerge ==
    /\ op.name = "__init__"
    /\ \E kw \in PartialUpdates : merge("update_data", kw)

SpecMerge == InitMerge /\ [][NextMerge]_vars

(***************************************************************************)
(* SpecConc: update_data called from two threads.  No lock is taken in     *)
(* update_data or update_from_dict, so the threads interleave between the  *)
(* evaluation of a statement's right-hand side and its store.              *)
(***************************************************************************)
MaxMerges == 1                    \* update_data calls per thread

BroadcastPc == Len(UpdateStmts) + 1

ConcUpdates ==
    { [tank |-> [tank_level_mm |-> 7, tank_level_percent |-> 7]],
      [pump |-> [target_rate |-> 7, flow_rate |-> 7, pump_state |-> "fault"]],
      [pump |-> [target_rate |-> 8]],
      [system |-> [status |-> "standby"], faults |-> [hh_pressure |-> TRUE]] }

\* The first statement from i on that kw makes update_from_dict execute.
RECURSIVE NextRunning(_, _)
NextRunning(i, kw) ==
    IF i > Len(UpdateStmts) THEN BroadcastPc
    ELSE IF StmtRuns(UpdateStmts[i], kw) THEN i
    ELSE NextRunning(i + 1, kw)

ThreadStep(t, i) == [name |-> "update_data_step", thread |-> t, pc |-> i]

\* Thread t calls update_data(**kw) with a non-empty kw.
begin_update(t, kw) ==
    /\ th[t].pc = 0
    /\ th[t].n < MaxMerges
    /\ th' = [th EXCEPT ![t] = [pc |-> NextRunning(1, kw), ph |-> "eval",
                                kw |-> kw, tmp |-> 0, n |-> @.n]]
    /\ Observe(ThreadStep(t, 0), << >>, "none")
    /\ UNCHANGED << config, setup_pc, running, appVars, dashVars, now >>

\* Thread t evaluates the right-hand side of its current statement; a
\* TypeError there ends update_from_dict and is caught by update_data.
eval_stmt(t) ==
    /\ th[t].pc \in 1..Len(UpdateStmts)
    /\ th[t].ph = "eval"
    /\ LET st == UpdateStmts[th[t].pc] IN
       IF StmtRaises(st, th[t].kw, data)
       THEN /\ th' = [th EXCEPT ![t].pc = 0, ![t].n = @ + 1]
            /\ Observe(ThreadStep(t, th[t].pc), << >>, "TypeError")
       ELSE /\ th' = [th EXCEPT ![t].ph = "store",
                                ![t].tmp = StmtValue(st, th[t].kw, data, now)]
            /\ Observe(ThreadStep(t, th[t].pc), << >>, "none")
    /\ UNCHANGED << config, setup_pc, running, appVars, dashVars, now >>

\* Thread t stores the value into the attribute.
store_stmt(t) ==
    /\ th[t].pc \in 1..Len(UpdateStmts)
    /\ th[t].ph = "store"
    /\ data' = SetAttr(data, UpdateStmts[th[t].pc].attr, th[t].tmp)
    /\ th' = [th EXCEPT ![t].ph = "eval", ![t].tmp = 0,
                        ![t].pc = NextRunning(@ + 1, th[t].kw)]
    /\ Observe(ThreadStep(t, th[t].pc), << >>, "none")
    /\ UNCHANGED << config, setup_pc, running, appVars, connected_clients, now >>

\* Thread t runs broadcast_update and returns from update_data.
broadcast_step(t) ==
    /\ th[t].pc = BroadcastPc
    /\ th' = [th EXCEPT ![t].pc = 0, ![t].n = @ + 1]
    /\ Observe(ThreadStep(t, BroadcastPc),
               broadcast_update(connected_clients, data), "none")
    /\ UNCHANGED << config, setup_pc, running, appVars, dashVars, now >>

NextConc ==
    \/ ClockAdvance
    \/ \E t \in Threads, kw \in ConcUpdates : begin_update(t, kw)
    \/ \E t \in Threads : eval_stmt(t)
    \/ \E t \in Threads : store_stmt(t)
    \/ \E t \in Threads : broadcast_step(t)

InitConc == InitMergeAt(0)

SpecConc == InitConc /\ [][NextConc]_vars

(***************************************************************************)
(* SpecSub: a session connects while update_data runs on another thread    *)
(***************************************************************************)
SubUpdates ==
    { [tank |-> [tank_level_mm |-> 7]],
      [system |-> [status |-> "standby"]] }

NextSub ==
    \/ ClockAdvance
    \/ start_dashboard
    \/ \E t \in Threads, kw \in SubUpdates : begin_update(t, kw)
    \/ \E t \in Threads : eval_stmt(t)
    \/ \E t \in Threads : store_stmt(t)
    \/ \E t \in Threads : broadcast_step(t)
    \/ \E c \in Clients : handle_connect(c)

SpecSub == InitDash /\ [][NextSub]_vars

(***************************************************************************)
(* SpecLive: the heartbeat thread beside ticks that return, raise or block *)
(* and beside a merge in progress.  The heartbeat loop runs on a thread of *)
(* its own, which the scheduler keeps running: weak fairness of            *)
(* background_update.  Nothing else is assumed to make progress.           *)
(***************************************************************************)
\* A tick enters a tag-source call that never returns (application.py:159
\* onwards); the main loop, and the callbacks on its event loop, stop.
tick_blocks ==
    /\ setup_pc = "ready"
    /\ setup_pc' = "blocked"
    /\ Observe([name |-> "update_dashboard_data", blocked |-> TRUE], << >>, "none")
    /\ UNCHANGED << config, running, appVars, dashVars, now, th >>

LiveReads == { BaseReads, [BaseReads EXCEPT !.ai1 = NoneNum] }

LiveUpdates == { [system |-> [status |-> "standby"]] }

NextLive ==
    \/ ClockAdvance
    \/ start_dashboard
    \/ setup_selector(49, 49)
    \/ setup_valve_control(valve_do)
    \/ \E r \in LiveReads : main_loop(r)
    \/ tick_blocks
    \/ \E kw \in LiveUpdates : begin_update("t1", kw)
    \/ eval_stmt("t1")
    \/ store_stmt("t1")
    \/ broadcast_step("t1")
    \/ \E c \in Clients : handle_connect(c)
    \/ \E c \in Clients : handle_disconnect(c)
    \/ background_update

SpecLive == InitDash /\ [][NextLive]_vars /\ WF_vars(background_update)

(***************************************************************************)
(* SpecSolar: one tick over a pool of solar controllers, from a fresh      *)
(* snapshot and from one with every field changed                          *)
(***************************************************************************)
MaxSolar == 2                     \* solar controllers in the pool

SolarCfg(n) == [TwoPumps EXCEPT !.solar = n]

\* The four tags read from one solar controller.
SolarControllerReads ==
    [ b_voltage : {NoneNum, 12}, b_percent : {NoneNum, 60},
      panel_power : {NoneNum, 6}, remaining_ah : {NoneNum, 48, 72} ]

RECURSIVE SolarPools(_)
SolarPools(n) ==
    IF n = 0 THEN { << >> }
    ELSE { Append(pool, c) : pool \in SolarPools(n - 1), c \in SolarControllerReads }

SolarReads(n) == { [BaseReads EXCEPT !.solar = pool] : pool \in SolarPools(n) }

InitSolar ==
    /\ config \in { SolarCfg(n) : n \in 0..MaxSolar }
    /\ setup_pc = "ready"
    /\ running = TRUE
    /\ selector_state = 3
    /\ valve_control_state = 0
    /\ valve_do = 0
    /\ data \in { DashboardData(0),
                  update_from_dict(DashboardData(0), FullUpdate, 0).data }
    /\ connected_clients = {}
    /\ now = 1
    /\ th = [t \in Threads |-> Idle]
    /\ op = [name |-> "__init__"]
    /\ set_do_calls = << >>
    /\ emitted = << >>
    /\ err = "none"

NextSolar ==
    /\ op.name = "__init__"
    /\ \E r \in SolarReads(config.solar) : main_loop(r)

SpecSolar == InitSolar /\ [][NextSolar]_vars

(***************************************************************************)
(* SpecRead: sessions read the snapshot (on connect, on request, in a      *)
(* broadcast) while update_data applies a two-field update on another      *)
(* thread                                                                  *)
(***************************************************************************)
ReadUpdates == { [tank |-> [tank_level_mm |-> 7, tank_level_percent |-> 7]] }

NextRead ==
    \/ ClockAdvance
    \/ start_dashboard
    \/ \E kw \in ReadUpdates : begin_update("t1", kw)
    \/ eval_stmt("t1")
    \/ store_stmt("t1")
    \/ broadcast_step("t1")
    \/ \E c \in Clients : handle_connect(c)
    \/ \E c \in Clients : handle_data_request(c)

SpecRead == InitDash /\ [][NextRead]_vars

(***************************************************************************)
(* SpecOnePump: the operations of Spec with one pump controller configured *)
(***************************************************************************)
OnePump == [TwoPumps EXCEPT !.pumps = 1]

InitOnePump == InitWith(OnePump)

SpecOnePump == InitOnePump /\ [][Next]_vars

(***************************************************************************)
(* Properties of the valve interlock and the selector derivation (Spec)    *)
(***************************************************************************)
EdgeNames == {"start_btn_callback", "stop_btn_callback"}

\* The step handles a button edge in selector state sel.
EdgeStep(sel) == op'.name \in EdgeNames /\ selector_state = sel

PeerInCalibration(o) == "calibration" \in {o.p1_state, o.p2_state}

IsAdvisory(e) == e.event \notin {"data_update", "heartbeat"}

\* C1: a start or stop edge in BOTH_LOCAL (3) with a peer pump controller in
\* "calibration" issues no valve write and emits an operator advisory event.
C1_CalibrationEdgeEmitsAdvisory ==
    [][ (EdgeStep(3) /\ PeerInCalibration(op'))
          => /\ set_do_calls' = << >>
             /\ \E i \in DOMAIN emitted' : IsAdvisory(emitted'[i]) ]_vars

\* C2: a start or stop edge in BOTH_LOCAL (3) with no peer in "calibration"
\* issues exactly one valve write: 0 for start, 1 for stop.
C2_ClearEdgeWritesOnce ==
    [][ (EdgeStep(3) /\ ~PeerInCalibration(op'))
          => set_do_calls' =
               << IF op'.name = "start_btn_callback" THEN 0 ELSE 1 >> ]_vars

C2_Witness ==
    /\ op.name = "stop_btn_callback"
    /\ selector_state = 3
    /\ ~PeerInCalibration(op)
    /\ set_do_calls = << 1 >>
    /\ valve_do = 1

\* C3: a start or stop edge while selector_state is not BOTH_LOCAL is
\* ignored: no valve write, no event, snapshot, valve_state and the valve
\* output unchanged.
C3_EdgeIgnoredUnlessBothLocal ==
    [][ (op'.name \in EdgeNames /\ selector_state # 3)
          => /\ set_do_calls' = << >>
             /\ emitted' = << >>
             /\ data' = data
             /\ valve_control_state' = valve_control_state
             /\ valve_do' = valve_do ]_vars

C3_Witness ==
    /\ op.name = "start_btn_callback"
    /\ selector_state \in {1, 2}
    /\ ~PeerInCalibration(op)
    /\ set_do_calls = << >>
    /\ valve_do = 1

\* The truth table with strict "< 5 means local".
StrictTable(p1, p2) ==
    CASE p1 < 50 /\ p2 < 50   -> 3
      [] p1 < 50 /\ p2 >= 50  -> 2
      [] p1 >= 50 /\ p2 < 50  -> 1
      [] OTHER                -> 0

\* The operation derived a selector state from the readings p1, p2.
DerivedAtSetup(p1, p2) ==
    op.name = "setup_selector" /\ op.p1 = p1 /\ op.p2 = p2

DerivedAtTick(p1, p2) ==
    op.name = "update_dashboard_data" /\ op.r.ai1 = p1 /\ op.r.ai2 = p2

\* C4: for every pair of readings the selector state computed at startup and
\* the one computed on a tick both follow the strict truth table.
C4_BothSitesFollowStrictTable ==
    \A p1 \in AIValues, p2 \in AIValues :
        (DerivedAtSetup(p1, p2) \/ DerivedAtTick(p1, p2))
            => selector_state = StrictTable(p1, p2)

TickDone == op.name = "update_dashboard_data"

\* C6: after every tick the low-low tank level flag of the snapshot is true
\* iff one of the two AppState strings read in that tick is
\* "tank_level_low_low_level", and the high-high pressure flag iff one is
\* "pressure_high_high_level", whatever the other readings of the tick are.
C6_FaultFlagsFollowEachTick ==
    TickDone =>
        /\ data.faults.ll_tank_level
             <=> ("tank_level_low_low_level" \in {op.r.app1, op.r.app2})
        /\ data.faults.hh_pressure
             <=> ("pressure_high_high_level" \in {op.r.app1, op.r.app2})

\* The payload p carries every section of the snapshot d.
CarriesSnapshot(p, d) ==
    /\ DOMAIN p = {"pump", "pump2", "solar", "tank", "skid", "system", "faults"}
    /\ p.pump.target_rate = d.target_rate
    /\ p.pump.flow_rate = d.flow_rate
    /\ p.pump.pump_state = d.pump_state
    /\ p.pump2.target_rate = d.pump2_target_rate
    /\ p.pump2.flow_rate = d.pump2_flow_rate
    /\ p.pump2.pump_state = d.pump2_pump_state
    /\ p.solar.battery_voltage = d.battery_voltage
    /\ p.solar.battery_percentage = d.battery_percentage
    /\ p.solar.panel_power = d.panel_power
    /\ p.solar.battery_ah = d.battery_ah
    /\ p.tank.tank_level_mm = d.tank_level_mm
    /\ p.tank.tank_level_percent = d.tank_level_percent
    /\ p.skid.skid_flow = d.skid_flow
    /\ p.skid.skid_pressure = d.skid_pressure
    /\ p.system.status = d.system_status
    /\ p.system.timestamp = d.timestamp
    /\ p.faults.hh_pressure = d.faults.hh_pressure
    /\ p.faults.ll_tank_level = d.faults.ll_tank_level

\* Exactly one data_update, sent to the clients in `to`, carrying snapshot d.
OneDataUpdate(to, d) ==
    /\ Len(emitted) = 1
    /\ emitted[1].event = "data_update"
    /\ emitted[1].to = to
    /\ CarriesSnapshot(emitted[1].payload, d)

\* The last operation passed a non-empty partial update to update_data.
MergedNonEmpty ==
    \/ TickDone /\ op.r.ai1 # NoneNum /\ op.r.ai2 # NoneNum
    \/ op.name = "update_system_status"

\* C9: every merge of a non-empty partial update is followed by one
\* data_update to all connected subscribers that carries the full snapshot
\* as it stands after the merge.
C9_MergeIsBroadcast ==
    (MergedNonEmpty /\ connected_clients # {})
        => OneDataUpdate(connected_clients, data)

\* C10: on connect the new subscriber is registered and is sent exactly one
\* data_update carrying the full current snapshot.
C10_ConnectResyncs ==
    op.name = "handle_connect"
        => /\ op.sid \in connected_clients
           /\ OneDataUpdate({op.sid}, data)

C10_Witness ==
    /\ op.name = "handle_connect"
    /\ op.sid \in connected_clients
    /\ Cardinality(connected_clients) = 2
    /\ Len(emitted) = 1
    /\ emitted[1].payload.pump.target_rate = 1
    /\ emitted[1].payload.pump2.target_rate = 0

(***************************************************************************)
(* Properties of the merge (SpecMerge)                                     *)
(***************************************************************************)
\* The data model: where each field of a partial update goes in the snapshot.
SnapshotFields ==
    { << "pump", "target_rate", "target_rate" >>,
      << "pump", "flow_rate", "flow_rate" >>,
      << "pump", "pump_state", "pump_state" >>,
      << "pump2", "target_rate", "pump2_target_rate" >>,
      << "pump2", "flow_rate", "pump2_flow_rate" >>,
      << "pump2", "pump_state", "pump2_pump_state" >>,
      << "solar", "battery_voltage", "battery_voltage" >>,
      << "solar", "battery_percentage", "battery_percentage" >>,
      << "solar", "panel_power", "panel_power" >>,
      << "solar", "battery_ah", "battery_ah" >>,
      << "tank", "tank_level_mm", "tank_level_mm" >>,
      << "tank", "tank_level_percent", "tank_level_percent" >>,
      << "skid", "skid_flow", "skid_flow" >>,
      << "skid", "skid_pressure", "skid_pressure" >>,
      << "system", "status", "system_status" >> }

FlagNames == {"hh_pressure", "ll_tank_level"}

\* The field (sec, key) is absent from the partial update kw.
Absent(kw, sec, key) == sec \notin DOMAIN kw \/ key \notin DOMAIN kw[sec]

\* C7: a merge changes no snapshot field whose section, or whose sub-field
\* within a present section, is absent from the partial update.
C7_MergeKeepsAbsentFields ==
    [][ op'.name = "update_data"
          => /\ \A f \in SnapshotFields :
                   Absent(op'.kw, f[1], f[2]) => data'[f[3]] = data[f[3]]
             /\ \A g \in FlagNames :
                   Absent(op'.kw, "faults", g) => data'.faults[g] = data.faults[g]
      ]_vars

C7_Witness ==
    /\ op.name = "update_data"
    /\ DOMAIN op.kw = {"pump", "faults"}
    /\ DOMAIN op.kw["pump"] = {"flow_rate"}
    /\ DOMAIN op.kw["faults"] = {"hh_pressure"}
    /\ data.flow_rate = 7 /\ data.target_rate = 1 /\ data.pump_state = "auto"
    /\ data.tank_level_mm = 1
    /\ ~data.faults.hh_pressure /\ data.faults.ll_tank_level
    /\ data.timestamp = 1

(***************************************************************************)
(* Properties of concurrent merges (SpecConc)                              *)
(***************************************************************************)
Sections(kw) == DOMAIN kw

DisjointMerges(h) == Sections(h["t1"].kw) \cap Sections(h["t2"].kw) = {}

BothMerged(h) == \A t \in Threads : h[t].n = 1 /\ h[t].pc = 0

\* The snapshot d holds every field of the partial update kw (the updates of
\* ConcUpdates carry numbers and texts, which float() and str() keep).
ContainsUpdate(d, kw) ==
    /\ \A f \in SnapshotFields :
          ~Absent(kw, f[1], f[2]) => d[f[3]] = kw[f[1]][f[2]]
    /\ \A g \in FlagNames :
          ~Absent(kw, "faults", g) => d.faults[g] = kw["faults"][g]

\* C8: two concurrent merges of partial updates over disjoint sections, under
\* every interleaving of their assignments, end in a snapshot that contains
\* both updates, and no field goes back to an older value: in particular
\* updated_at (timestamp) never decreases.
C8_DisjointMergesBothApplied ==
    [][ DisjointMerges(th')
          => /\ BothMerged(th') =>
                   \A t \in Threads : ContainsUpdate(data', th'[t].kw)
             /\ data'.timestamp >= data.timestamp
      ]_vars
(***************************************************************************)
(* Properties of connect during a merge (SpecSub)                          *)
(***************************************************************************)
\* The events em deliver the snapshot d to session c.
SentTo(em, c, d) ==
    \E i \in DOMAIN em :
        /\ em[i].event = "data_update"
        /\ c \in em[i].to
        /\ em[i].payload = to_dict(d)

\* The step is the broadcast that ends thread t's update_data.
BroadcastBy(t) == th[t].pc = BroadcastPc /\ th'[t].pc = 0

\* C11: a subscriber receives the snapshot current at connect and then the
\* snapshot of each later merge, and no snapshot version twice: the broadcast
\* of a merge does not deliver again the snapshot the subscriber was sent at
\* connect in the step before.
C11_NoVersionTwice ==
    [][ \A c \in Clients, t \in Threads :
          (/\ op.name = "handle_connect" /\ op.sid = c
           /\ SentTo(emitted, c, data)
           /\ BroadcastBy(t))
            => ~SentTo(emitted', c, data') ]_vars
(***************************************************************************)
(* Properties of the snapshot's writers and of its delivered form          *)
(* (SpecDash)                                                              *)
(***************************************************************************)
\* The operations that merge a partial update through update_data.
MergeOps == {"update_dashboard_data", "update_system_status"}

\* C12: the snapshot is mutated only by the merge operation: a step that
\* changes any snapshot field (pump state and timestamp included) is a merge
\* of a partial update, never the heartbeat task or a handler of a
\* subscriber-sent event.
C12_OnlyMergeMutatesSnapshot ==
    [][ data' # data => op'.name \in MergeOps ]_vars

\* C13: every snapshot delivered to a subscriber carries all fields of the
\* data model, selector_state and valve_state included.
C13_DeliveredSnapshotHasSelectorAndValve ==
    \A i \in DOMAIN emitted :
        emitted[i].event = "data_update"
            => {"selector", "valve"} \subseteq DOMAIN emitted[i].payload
(***************************************************************************)
(* Properties of valve_state (Spec)                                        *)
(***************************************************************************)
\* The results of the get_do reads of the valve output that operation o
\* made, in order: one in setup_valve_control (line 58), one in a tick that
\* gets as far as line 193, none in the button callbacks (lines 60-82).
get_do_reads(cfg, o) ==
    IF o.name = "setup_valve_control" THEN << o.do >>
    ELSE IF o.name = "update_dashboard_data"
            /\ update_dashboard_data(cfg, 0, 0, o.r).reached THEN << o.r.do >>
    ELSE << >>

\* C14: valve_state changes only to a value returned by a read of the valve
\* output: an operation that reads a value stores it, an operation that
\* reads nothing (a button edge, a valve write) leaves valve_state alone,
\* and a read that returns no value, at setup or on a tick, leaves
\* valve_state as it was and never makes it a missing value.
C14_ValveStateFollowsReads ==
    [][ \E reads \in {get_do_reads(config, op')} :
          IF reads # << >> /\ reads[1] # NoneNum
          THEN valve_control_state' = reads[1]
          ELSE valve_control_state' = valve_control_state ]_vars

\* C15: an edge that has performed a valve write re-reads the valve output
\* while handling that edge and stores the value read as valve_state (the
\* last confirmed value if the read returned nothing).
C15_EdgeWriteIsReadBack ==
    [][ (op'.name \in EdgeNames /\ set_do_calls' # << >>)
          => \E reads \in {get_do_reads(config, op')} :
                /\ Len(reads) = 1
                /\ valve_control_state' =
                      IF reads[1] # NoneNum THEN reads[1]
                                           ELSE valve_control_state ]_vars
(***************************************************************************)
(* Properties of the heartbeat (SpecLive)                                  *)
(***************************************************************************)
\* The last operation delivered a heartbeat, carrying a timestamp only, to
\* all connected sessions.
HeartbeatDelivered ==
    /\ op.name = "_background_updates"
    /\ Len(emitted) = 1
    /\ emitted[1].event = "heartbeat"
    /\ emitted[1].to = connected_clients
    /\ DOMAIN emitted[1].payload = {"timestamp"}

\* C16: while the dashboard runs and a subscriber is connected, a heartbeat
\* carrying only a timestamp is delivered again and again, whether ticks
\* return, raise or block forever and whether a merge is in progress.
C16_HeartbeatKeepsComing ==
    (running /\ connected_clients # {})
        ~> (connected_clients = {} \/ HeartbeatDelivered)

C16_Witness ==
    /\ setup_pc = "blocked"
    /\ th["t1"].pc # 0
    /\ Cardinality(connected_clients) = 2
    /\ HeartbeatDelivered
(***************************************************************************)
(* Properties of the solar aggregation (SpecSolar)                         *)
(***************************************************************************)
\* The partial update a tick with readings r passes to update_data.
tick_kwargs(cfg, r) == update_dashboard_data(cfg, 0, 0, r).kw

\* The solar metrics: tag read, key in the partial update, snapshot field.
SolarMetrics ==
    { << "b_voltage", "battery_voltage" >>, << "b_percent", "battery_percentage" >>,
      << "panel_power", "panel_power" >>, << "remaining_ah", "battery_ah" >> }

\* No controller of the pool returned a value for the tag (or the pool is
\* empty).
NoReading(r, tag) == \A i \in DOMAIN r.solar : r.solar[i][tag] = NoneNum

\* C17: a solar metric for which no controller returns a value is omitted
\* from the tick's partial update and the snapshot keeps its value; when all
\* four are empty the solar section is absent and all four snapshot solar
\* fields are unchanged.
C17_EmptySolarMetricOmitted ==
    [][ op'.name = "update_dashboard_data"
          => \E kw \in {tick_kwargs(config, op'.r)} :
               /\ \A m \in SolarMetrics :
                     NoReading(op'.r, m[1])
                       => /\ Absent(kw, "solar", m[2])
                          /\ data'[m[2]] = data[m[2]]
               /\ (\A m \in SolarMetrics : NoReading(op'.r, m[1]))
                     => "solar" \notin DOMAIN kw ]_vars

C17_Witness ==
    /\ op.name = "update_dashboard_data"
    /\ Len(op.r.solar) = 2
    /\ NoReading(op.r, "b_voltage") /\ NoReading(op.r, "panel_power")
    /\ ~NoReading(op.r, "remaining_ah")
    /\ data.battery_voltage = 1 /\ data.panel_power = 1
    /\ data.battery_ah = 72

\* C18: the battery_ah of the tick's partial update is the sum of the
\* non-missing remaining_ah readings of the pool, whenever there is one.
C18_BatteryAhIsSum ==
    (op.name = "update_dashboard_data" /\ ~NoReading(op.r, "remaining_ah"))
        => \E kw \in {tick_kwargs(config, op.r)} :
              /\ ~Absent(kw, "solar", "battery_ah")
              /\ kw["solar"]["battery_ah"] =
                    SumSeq(NonMissing(Column(op.r.solar, "remaining_ah")))
(***************************************************************************)
(* Properties of a tick with a missing pump reading (SpecDash)             *)
(***************************************************************************)
\* The snapshot field follows the reading v, and keeps the value `old` when
\* the reading is missing.
KeepsOrTakes(new, old, v, missing) == new = IF v = missing THEN old ELSE v

\* C19: when a pump tag read returns no value during a tick, the snapshot
\* field keeps its previous value (no synthetic value such as the text
\* "None" is stored), and every other field the tick did read is merged and
\* the result broadcast.
C19_MissingReadingKeepsField ==
    [][ op'.name = "update_dashboard_data"
          => /\ KeepsOrTakes(data'.target_rate, data.target_rate,
                             op'.r.p1.TargetRate, NoneNum)
             /\ KeepsOrTakes(data'.flow_rate, data.flow_rate,
                             op'.r.p1.FlowRate, NoneNum)
             /\ KeepsOrTakes(data'.pump_state, data.pump_state,
                             op'.r.p1.StateString, NoneStr)
             /\ KeepsOrTakes(data'.pump2_target_rate, data.pump2_target_rate,
                             op'.r.p2.TargetRate, NoneNum)
             /\ KeepsOrTakes(data'.pump2_flow_rate, data.pump2_flow_rate,
                             op'.r.p2.FlowRate, NoneNum)
             /\ KeepsOrTakes(data'.pump2_pump_state, data.pump2_pump_state,
                             op'.r.p2.StateString, NoneStr)
             /\ data'.faults = faults_data(op'.r.app1, op'.r.app2)
             /\ connected_clients # {}
                   => emitted' = << DataUpdate(connected_clients, data') >>
      ]_vars
(***************************************************************************)
(* Properties of reads during a merge (SpecRead)                           *)
(***************************************************************************)
\* The delivered snapshot p holds some fields of the partial update kw and
\* lacks others.
PartlyApplied(p, kw) ==
    \E f \in SnapshotFields, g \in SnapshotFields :
        /\ ~Absent(kw, f[1], f[2]) /\ ~Absent(kw, g[1], g[2])
        /\ p[f[1]][f[2]] = kw[f[1]][f[2]]
        /\ p[g[1]][g[2]] # kw[g[1]][g[2]]

\* C21: a read of the snapshot (on connect, on a data request, in a
\* broadcast) never obtains a snapshot in which only some of the fields of
\* one partial update have been applied.
C21_ReadsSeeNoPartialMerge ==
    \A i \in DOMAIN emitted :
        emitted[i].event = "data_update"
            => \A t \in Threads : ~PartlyApplied(emitted[i].payload, th[t].kw)
(***************************************************************************)
(* Properties of a merge that fails part-way (SpecDash)                    *)
(***************************************************************************)
\* The partial update the merge operation o passed to update_data.
MergedUpdate(o) ==
    IF o.name = "update_dashboard_data" THEN tick_kwargs(config, o.r) ELSE o.kw

\* The snapshot d holds every field of kw, in the form it is stored in.
HoldsUpdate(d, kw) ==
    /\ \A f \in SnapshotFields :
          ~Absent(kw, f[1], f[2])
            => d[f[3]] = IF f[2] \in {"pump_state", "status"}
                         THEN PyStr(kw[f[1]][f[2]]) ELSE kw[f[1]][f[2]]
    /\ \A g \in FlagNames :
          ~Absent(kw, "faults", g) => d.faults[g] = kw["faults"][g]

\* C22: a merge is all-or-nothing: either every present field is applied,
\* updated_at is bumped and the result is broadcast, or, when applying a
\* field fails, the snapshot is left exactly as it was before the merge.
C22_MergeAllOrNothing ==
    [][ op'.name \in MergeOps
          => \/ /\ err' = "none"
                /\ HoldsUpdate(data', MergedUpdate(op'))
                /\ data'.timestamp = now
                /\ connected_clients # {}
                      => emitted' = << DataUpdate(connected_clients, data') >>
             \/ /\ err' # "none"
                /\ data' = data ]_vars
(***************************************************************************)
(* Properties of valve writes against the selector readings (Spec)         *)
(***************************************************************************)
\* The operation o was a tick that derived the selector state from two
\* readings.
TickDerived(o) ==
    /\ o.name = "update_dashboard_data"
    /\ o.r.ai1 # NoneNum /\ o.r.ai2 # NoneNum

\* C23: a valve write is issued only if both selector readings of the most
\* recent selector derivation before the edge were strictly below 5: an
\* edge that follows a tick's derivation writes only if that tick read both
\* selectors below 5.
C23_WriteOnlyWhenBothBelowFive ==
    [][ (TickDerived(op) /\ op'.name \in EdgeNames /\ set_do_calls' # << >>)
          => (op.r.ai1 < 50 /\ op.r.ai2 < 50) ]_vars
(***************************************************************************)
(* Properties of a deployment with one pump controller (SpecOnePump)       *)
(***************************************************************************)
\* C24: with only one pump controller configured each tick still completes
\* and merges a partial update that holds the primary pump's values
\* unchanged and no pump2 section, so the snapshot's pump2 fields are not
\* modified by the tick.
C24_OnePumpTickMerges ==
    [][ (config.pumps = 1 /\ op'.name = "update_dashboard_data")
          => /\ err' = "none"
             /\ data'.target_rate = op'.r.p1.TargetRate
             /\ data'.flow_rate = op'.r.p1.FlowRate
             /\ data'.pump_state = op'.r.p1.StateString
             /\ data'.pump2_target_rate = data.pump2_target_rate
             /\ data'.pump2_flow_rate = data.pump2_flow_rate
             /\ data'.pump2_pump_state = data.pump2_pump_state ]_vars
====

